---- MODULE Spec2Model ----
(***************************************************************************)
(* Model of bin/full-node/src/network_service.rs: construction of the      *)
(* NetworkService, the background tasks it hands to the tasks executor     *)
(* (listener, kademlia-discovery, tcp-dial, substreams-open), and the      *)
(* connection tasks spawned by the tcp-dial tasks.  The protocol engine    *)
(* (service::ChainNetwork) and the operating system are the environment:   *)
(* their answers are nondeterministic choices.                             *)
(***************************************************************************)
EXTENDS Integers, Sequences, FiniteSets, TLC

\* ---------------------------------------------------------------- bounds
MaxListen == 2
MaxChains == 2
MaxPending == 2
MaxHandles == 2
MaxWaits == 8

\* Events the engine produces in a run, and concurrent next_event callers.
MaxEvents == 2
MaxCallers == 2

\* ------------------------------------------------------ program constants
DiscoveryInitial == 5
DiscoveryCap == 120

\* ------------------------------------------------------------- addresses
\* A multiaddress is the sequence of the names of its protocol components.
ListenAddrs ==
    { <<>>, <<"ip4">>, <<"ip4", "tcp">>, <<"ip6", "tcp">>, <<"dns4", "tcp">>,
      <<"tcp", "ip4">>, <<"ip4", "udp">>, <<"ip4", "tcp", "ws">> }

DialAddrs ==
    { <<>>, <<"ip4">>, <<"ip4", "tcp">>, <<"ip6", "tcp">>, <<"dns", "tcp">>,
      <<"dns4", "tcp">>, <<"dns6", "tcp">>, <<"tcp", "ip4">>, <<"ip4", "udp">>,
      <<"ip4", "tcp", "ws">> }

SeqsUpTo(S, n) == UNION { [1..k -> S] : k \in 0..n }

\* The (proto1, proto2) match of `new`, lines 142-146.
ListenPairOk_noIp6(p1, p2) == p1 = "ip4" /\ p2 = "tcp"
ListenPairOk(p1, p2) == p1 \in {"ip4", "ip6"} /\ p2 = "tcp"

\* The three iter.next() tests of `new`, lines 128-140.
ListenArityOk_noThird(addr) == Len(addr) >= 2
ListenArityOk(addr) == Len(addr) = 2

\* Lines 127-146: TRUE when the address parses into a socket address.
ListenParses(addr) == ListenArityOk(addr) /\ ListenPairOk(addr[1], addr[2])

\* multiaddr_to_socket, lines 544-563: TRUE for Ok(future), FALSE for Err(()).
multiaddr_to_socket_noThirdTest(addr) ==
    /\ Len(addr) >= 2
    /\ addr[1] \in {"ip4", "ip6", "dns", "dns4", "dns6"}
    /\ addr[2] = "tcp"

multiaddr_to_socket(addr) ==
    /\ Len(addr) >= 2
    /\ ~(Len(addr) >= 3)
    /\ addr[1] \in {"ip4", "ip6", "dns", "dns4", "dns6"}
    /\ addr[2] = "tcp"

\* cmp::min(next_discovery * 2, Duration::from_secs(120)), line 231.
NextDiscovery_nocap(d) == d * 2
NextDiscovery(d) == IF d * 2 < DiscoveryCap THEN d * 2 ELSE DiscoveryCap

\* ----------------------------------------------------------------- state
VARIABLES
    listen_addresses,   \* Config::listen_addresses
    num_chains,         \* Config::chains.len()
    new_pc,             \* position of NetworkService::new
    new_idx,            \* loop index of the loop `new` is in
    new_result,         \* what `new` returned
    new_holds,          \* `new` owns the Arc it created (line 208)
    bind_attempts,      \* indices of the listen addresses bind() was called on
    spawned,            \* work items `new` handed to tasks_executor, in order
    engine_created,     \* service::ChainNetwork::new was called (line 212)
    caller_handles,     \* Arc<NetworkService> handles the caller owns
    lock_holder,        \* who holds NetworkService::guarded
    listeners,          \* listener tasks, by listen address index
    disc,               \* kademlia-discovery tasks, by chain index
    dial,               \* tcp-dial tasks, by chain index
    substream,          \* the substreams-open task
    conn,               \* connection tasks handed to tasks_executor, by PendingId
    num_issued,         \* PendingIds returned by fill_out_slots so far
    outcome_ok,         \* pending_outcome_ok calls, by PendingId
    outcome_err,        \* pending_outcome_err calls, by PendingId
    rw_inflight,        \* read_write calls not yet returned, by ConnectionId
    established,        \* connections the engine holds as established, by ConnectionId
    ev_emitted,         \* events the engine has produced so far
    ev_pulled,          \* events network.next_event() has handed out so far
    ev_shape,           \* shape of each event handed out, by event number
    consumed,           \* times an event was handed to a next_event call, by event number
    delivered,          \* times an event was returned by next_event, by event number
    answered,           \* agent string an identify request was answered with, by event number
    callers             \* the next_event calls, by caller

vars == << listen_addresses, num_chains, new_pc, new_idx, new_result, new_holds,
           bind_attempts, spawned, engine_created, caller_handles, lock_holder,
           listeners, disc, dial, substream, conn, num_issued, outcome_ok,
           outcome_err, rw_inflight, established, ev_emitted, ev_pulled,
           ev_shape, consumed, delivered, answered, callers >>

config_vars == << listen_addresses, num_chains >>
new_vars == << new_pc, new_idx, new_result, new_holds, bind_attempts, engine_created >>
engine_vars == << num_issued, outcome_ok, outcome_err, rw_inflight, established >>
task_vars == << listeners, disc, dial, substream, conn >>
event_vars == << ev_emitted, ev_pulled, ev_shape, consumed, delivered, answered, callers >>

ListenIdx == 1..MaxListen
ChainIdx == 0..(MaxChains - 1)
PendingIds == 1..MaxPending
ConnectionIds == 1..MaxPending

NoHolder == <<"none", 0>>

\* What each background task captures of the service when its future is built.
DiscoveryCapture == "weak"          \* Arc::downgrade, line 225
DialCapture == "weak"               \* Arc::downgrade, line 266
SubstreamCapture_weak == "weak"
SubstreamCapture == "strong"        \* network_service.clone(), line 314

DiscInit == [pc |-> "none", capture |-> "none", strong |-> FALSE,
             next_discovery |-> DiscoveryInitial, waits |-> 0, last_wait |-> 0,
             saw_ok |-> FALSE, saw_err |-> FALSE]
DialInit == [pc |-> "none", capture |-> "none", strong |-> FALSE, sc |-> 0]
SubstreamInit == [pc |-> "none", capture |-> "none", strong |-> FALSE]

EventIds == 1..MaxEvents
Callers == 1..MaxCallers

\* No event: a caller that holds none, a call that returned nothing yet.
NoEvent == [kind |-> "none"]

\* A next_event call: its position, and the engine event (with its number)
\* and the public event it holds.
CallerInit == [pc |-> "idle", id |-> 0, ev |-> NoEvent, ret |-> NoEvent]

\* read_open: the read buffer of the current cycle is present; closed:
\* tcp_socket.is_closed(); close_calls: calls of tcp_socket.close();
\* wake: the wake_up_after the read_write of the current cycle returned.
ConnInit == [pc |-> "none", strong |-> FALSE, cid |-> 0,
             read_open |-> TRUE, closed |-> FALSE, close_calls |-> 0,
             wake |-> "none"]

Init ==
    /\ listen_addresses \in SeqsUpTo(ListenAddrs, MaxListen)
    /\ num_chains \in 0..MaxChains
    /\ new_pc = "listen"
    /\ new_idx = 1
    /\ new_result = <<"none">>
    /\ new_holds = FALSE
    /\ bind_attempts = {}
    /\ spawned = <<>>
    /\ engine_created = FALSE
    /\ caller_handles = 0
    /\ lock_holder = NoHolder
    /\ listeners = [i \in ListenIdx |-> "none"]
    /\ disc = [c \in ChainIdx |-> DiscInit]
    /\ dial = [c \in ChainIdx |-> DialInit]
    /\ substream = SubstreamInit
    /\ conn = [p \in PendingIds |-> ConnInit]
    /\ num_issued = 0
    /\ outcome_ok = [p \in PendingIds |-> 0]
    /\ outcome_err = [p \in PendingIds |-> 0]
    /\ rw_inflight = [k \in ConnectionIds |-> 0]
    /\ established = [k \in ConnectionIds |-> FALSE]
    /\ ev_emitted = 0
    /\ ev_pulled = 0
    /\ ev_shape = [id \in EventIds |-> "none"]
    /\ consumed = [id \in EventIds |-> 0]
    /\ delivered = [id \in EventIds |-> 0]
    /\ answered = [id \in EventIds |-> "none"]
    /\ callers = [k \in Callers |-> CallerInit]

\* ------------------------------------------------- Arc<NetworkService>
Card01(b) == IF b THEN 1 ELSE 0

\* Strong count of the Arc created at line 208.
StrongCount ==
    Card01(new_holds) + caller_handles + Card01(substream.strong)
    + Cardinality({c \in ChainIdx : disc[c].strong})
    + Cardinality({c \in ChainIdx : dial[c].strong})
    + Cardinality({p \in PendingIds : conn[p].strong})

\* Weak::upgrade, lines 233 and 272.
Upgrade == StrongCount > 0

\* ------------------------------------------------- NetworkService::new
\* The for loops over 0..num_chains(), lines 223 and 264.
DiscoveryLoopRange == 0..(num_chains - 1)
DialLoopRange_short == 0..(num_chains - 2)
DialLoopRange == 0..(num_chains - 1)

\* guarded.try_lock().unwrap(), lines 224, 265, 313.
TryLockFails == lock_holder # NoHolder

NewPanic ==
    /\ new_pc' = "panic"
    /\ new_result' = <<"panic">>
    /\ new_holds' = FALSE
    /\ UNCHANGED << new_idx, bind_attempts, engine_created >>

\* Lines 125-146: take the next listen address and parse it.
NewParse ==
    /\ new_pc = "listen"
    /\ new_idx <= Len(listen_addresses)
    /\ IF ListenParses(listen_addresses[new_idx])
         THEN /\ new_pc' = "bind"
              /\ UNCHANGED new_result
         ELSE /\ new_pc' = "err"
              /\ new_result' = <<"BadListenMultiaddr", new_idx>>
    /\ UNCHANGED << new_idx, new_holds, bind_attempts, engine_created >>
    /\ UNCHANGED << config_vars, event_vars, spawned, caller_handles, lock_holder, task_vars,
                    engine_vars >>

\* Lines 148-181: TcpListener::bind completes; on success the listener task
\* is handed to the executor.
NewBind ==
    /\ new_pc = "bind"
    /\ bind_attempts' = bind_attempts \cup {new_idx}
    /\ \E bound \in BOOLEAN :
         IF bound
           THEN /\ listeners' = [listeners EXCEPT ![new_idx] = "accept"]
                /\ spawned' = Append(spawned, <<"listener", new_idx>>)
                /\ new_idx' = new_idx + 1
                /\ new_pc' = "listen"
                /\ UNCHANGED new_result
           ELSE /\ new_pc' = "err"
                /\ new_result' = <<"ListenerIo", new_idx>>
                /\ UNCHANGED << listeners, spawned, new_idx >>
    /\ UNCHANGED << new_holds, engine_created >>
    /\ UNCHANGED << config_vars, event_vars, caller_handles, lock_holder, disc, dial, substream,
                    conn, engine_vars >>

\* Lines 184-220: the listen loop is over; build the engine and the Arc.
NewEngine ==
    /\ new_pc = "listen"
    /\ new_idx > Len(listen_addresses)
    /\ engine_created' = TRUE
    /\ new_holds' = TRUE
    /\ new_idx' = 0
    /\ new_pc' = IF 0 \in DiscoveryLoopRange THEN "discovery"
                 ELSE IF 0 \in DialLoopRange THEN "dial" ELSE "substream"
    /\ UNCHANGED << new_result, bind_attempts >>
    /\ UNCHANGED << config_vars, event_vars, spawned, caller_handles, lock_holder, task_vars,
                    engine_vars >>

\* Lines 223-260: hand the discovery task of chain new_idx to the executor.
NewSpawnDiscovery ==
    /\ new_pc = "discovery"
    /\ new_idx \in DiscoveryLoopRange
    /\ IF TryLockFails
         THEN /\ NewPanic
              /\ UNCHANGED << disc, spawned >>
         ELSE /\ disc' = [disc EXCEPT ![new_idx].pc = "delay",
                                      ![new_idx].capture = DiscoveryCapture]
              /\ spawned' = Append(spawned, <<"discovery", new_idx>>)
              /\ IF new_idx + 1 \in DiscoveryLoopRange
                   THEN new_idx' = new_idx + 1 /\ new_pc' = "discovery"
                   ELSE /\ new_idx' = 0
                        /\ new_pc' = IF 0 \in DialLoopRange THEN "dial" ELSE "substream"
              /\ UNCHANGED << new_result, new_holds, bind_attempts, engine_created >>
    /\ UNCHANGED << config_vars, event_vars, caller_handles, lock_holder, listeners, dial,
                    substream, conn, engine_vars >>

\* Lines 264-311: hand the dial task of chain new_idx to the executor.
NewSpawnDial ==
    /\ new_pc = "dial"
    /\ new_idx \in DialLoopRange
    /\ IF TryLockFails
         THEN /\ NewPanic
              /\ UNCHANGED << dial, spawned >>
         ELSE /\ dial' = [dial EXCEPT ![new_idx].pc = "delay",
                                      ![new_idx].capture = DialCapture]
              /\ spawned' = Append(spawned, <<"dial", new_idx>>)
              /\ IF new_idx + 1 \in DialLoopRange
                   THEN new_idx' = new_idx + 1 /\ new_pc' = "dial"
                   ELSE new_idx' = 0 /\ new_pc' = "substream"
              /\ UNCHANGED << new_result, new_holds, bind_attempts, engine_created >>
    /\ UNCHANGED << config_vars, event_vars, caller_handles, lock_holder, listeners, disc,
                    substream, conn, engine_vars >>

\* Lines 313-329: hand the substreams-open task to the executor and return
\* the Arc to the caller.
NewSpawnSubstream ==
    /\ new_pc = "substream"
    /\ IF TryLockFails
         THEN /\ NewPanic
              /\ UNCHANGED << substream, spawned, caller_handles >>
         ELSE /\ substream' = [pc |-> "next_substream",
                               capture |-> SubstreamCapture,
                               strong |-> (SubstreamCapture = "strong")]
              /\ spawned' = Append(spawned, <<"substream", 0>>)
              /\ new_pc' = "ok"
              /\ new_result' = <<"Ok">>
              /\ new_holds' = FALSE
              /\ caller_handles' = 1
              /\ UNCHANGED << new_idx, bind_attempts, engine_created >>
    /\ UNCHANGED << config_vars, event_vars, lock_holder, listeners, disc, dial, conn,
                    engine_vars >>

NewStep ==
    \/ NewParse
    \/ NewBind
    \/ NewEngine
    \/ NewSpawnDiscovery
    \/ NewSpawnDial
    \/ NewSpawnSubstream

\* ------------------------------------------------------- the caller
\* Arc::clone of a handle the caller owns.
CallerClone ==
    /\ caller_handles >= 1
    /\ caller_handles < MaxHandles
    /\ caller_handles' = caller_handles + 1
    /\ UNCHANGED << config_vars, event_vars, new_vars, spawned, lock_holder, task_vars, engine_vars >>

\* Drop of a handle the caller owns.
CallerDrop ==
    /\ caller_handles >= 1
    /\ caller_handles' = caller_handles - 1
    /\ UNCHANGED << config_vars, event_vars, new_vars, spawned, lock_holder, task_vars, engine_vars >>

CallerStep == CallerClone \/ CallerDrop

\* ---------------------------------------------------- listener task
\* Lines 159-175: accept() completes.  An accepted connection reaches todo!().
ListenerAccept(i) ==
    /\ listeners[i] = "accept"
    /\ \E accepted \in BOOLEAN :
         listeners' = [listeners EXCEPT ![i] = IF accepted THEN "panicked" ELSE "cooldown"]
    /\ UNCHANGED << config_vars, event_vars, new_vars, spawned, caller_handles, lock_holder, disc,
                    dial, substream, conn, engine_vars >>

\* Lines 169-170: the 2 second Delay elapses; continue.
ListenerCooldown(i) ==
    /\ listeners[i] = "cooldown"
    /\ listeners' = [listeners EXCEPT ![i] = "accept"]
    /\ UNCHANGED << config_vars, event_vars, new_vars, spawned, caller_handles, lock_holder, disc,
                    dial, substream, conn, engine_vars >>

ListenerStep == \E i \in ListenIdx : ListenerAccept(i) \/ ListenerCooldown(i)

\* --------------------------------------------- kademlia-discovery task
\* Lines 230-239: the Delay elapses, next_discovery is doubled, the Weak is
\* upgraded.
DiscWake(c) ==
    /\ disc[c].pc = "delay"
    /\ disc[c].waits < MaxWaits
    /\ disc' = [disc EXCEPT
         ![c].last_wait = disc[c].next_discovery,
         ![c].waits = disc[c].waits + 1,
         ![c].next_discovery = NextDiscovery(disc[c].next_discovery),
         ![c].strong = Upgrade,
         ![c].pc = IF Upgrade THEN "round" ELSE "done"]
    /\ UNCHANGED << config_vars, event_vars, new_vars, spawned, caller_handles, lock_holder,
                    listeners, dial, substream, conn, engine_vars >>

\* Lines 241-255: kademlia_discovery_round returns.  An error is logged and
\* the iteration ends, which drops the upgraded Arc.
DiscRound(c) ==
    /\ disc[c].pc = "round"
    /\ \E ok \in BOOLEAN :
         disc' = [disc EXCEPT
           ![c].pc = IF ok THEN "insert" ELSE "delay",
           ![c].strong = ok,
           ![c].saw_ok = disc[c].saw_ok \/ ok,
           ![c].saw_err = disc[c].saw_err \/ ~ok]
    /\ UNCHANGED << config_vars, event_vars, new_vars, spawned, caller_handles, lock_holder,
                    listeners, dial, substream, conn, engine_vars >>

\* Lines 246-251: insert completes; the iteration ends.
DiscInsert(c) ==
    /\ disc[c].pc = "insert"
    /\ disc' = [disc EXCEPT ![c].pc = "delay", ![c].strong = FALSE]
    /\ UNCHANGED << config_vars, event_vars, new_vars, spawned, caller_handles, lock_holder,
                    listeners, dial, substream, conn, engine_vars >>

DiscStep == \E c \in ChainIdx : DiscWake(c) \/ DiscRound(c) \/ DiscInsert(c)

\* ------------------------------------------------------- tcp-dial task
\* Where the dial loop goes after pending_outcome_err: `continue`, line 295.
DialAfterOutcomeErr_fallthrough == "lock"
DialAfterOutcomeErr == "delay"

\* Lines 270-278: the 1 second Delay elapses, the Weak is upgraded.
DialWake(c) ==
    /\ dial[c].pc = "delay"
    /\ dial' = [dial EXCEPT ![c].strong = Upgrade,
                            ![c].pc = IF Upgrade THEN "fill" ELSE "done"]
    /\ UNCHANGED << config_vars, event_vars, new_vars, spawned, caller_handles, lock_holder,
                    listeners, disc, substream, conn, engine_vars >>

\* Lines 280-283: fill_out_slots returns None; continue.
DialFillNone(c) ==
    /\ dial[c].pc = "fill"
    /\ dial' = [dial EXCEPT ![c].pc = "delay", ![c].strong = FALSE]
    /\ UNCHANGED << config_vars, event_vars, new_vars, spawned, caller_handles, lock_holder,
                    listeners, disc, substream, conn, engine_vars >>

\* Lines 280-297: fill_out_slots returns Some(start_connect) with a fresh
\* PendingId; multiaddr_to_socket decides what happens to it.
DialFillSomeWith(c, multiaddr) ==
    /\ dial[c].pc = "fill"
    /\ num_issued < MaxPending
    /\ num_issued' = num_issued + 1
    /\ dial' = [dial EXCEPT
         ![c].sc = num_issued + 1,
         ![c].pc = IF multiaddr_to_socket(multiaddr) THEN "lock" ELSE "report_err"]
    /\ UNCHANGED << config_vars, event_vars, new_vars, spawned, caller_handles, lock_holder,
                    listeners, disc, substream, conn, outcome_ok, outcome_err,
                    rw_inflight, established >>

DialFillSome(c) == \E multiaddr \in DialAddrs : DialFillSomeWith(c, multiaddr)

\* Lines 292-296: pending_outcome_err(start_connect.id) returns.
DialReportErr(c) ==
    /\ dial[c].pc = "report_err"
    /\ outcome_err' = [outcome_err EXCEPT ![dial[c].sc] = @ + 1]
    /\ dial' = IF DialAfterOutcomeErr = "delay"
                 THEN [dial EXCEPT ![c].pc = "delay", ![c].strong = FALSE, ![c].sc = 0]
                 ELSE [dial EXCEPT ![c].pc = DialAfterOutcomeErr]
    /\ UNCHANGED << config_vars, event_vars, new_vars, spawned, caller_handles, lock_holder,
                    listeners, disc, substream, conn, num_issued, outcome_ok,
                    rw_inflight, established >>

\* Line 302: guarded.lock() is acquired.
DialLock(c) ==
    /\ dial[c].pc = "lock"
    /\ lock_holder = NoHolder
    /\ lock_holder' = <<"dial", c>>
    /\ dial' = [dial EXCEPT ![c].pc = "submit"]
    /\ UNCHANGED << config_vars, event_vars, new_vars, spawned, caller_handles, listeners, disc,
                    substream, conn, engine_vars >>

\* Lines 302-307: the executor call returns as soon as the connection task
\* is submitted; the loop body ends and the next iteration starts with the
\* Delay of line 270.  Nothing awaits the submitted task.
DialAfterSubmit_awaitsConn == "await_conn"
DialAfterSubmit == "delay"

\* Lines 302-306: the MutexGuard returned by guarded.lock() is a temporary of
\* the statement that calls tasks_executor; it is dropped at the end of that
\* statement, before the loop reaches any await.
DialGuardAfterSubmit_held(c) == <<"dial", c>>
DialGuardAfterSubmit(c) == NoHolder

\* Lines 301-307: the connection task, owning a clone of the Arc, is handed
\* to the executor; the guard is dropped; the iteration ends.
DialSubmit(c) ==
    /\ dial[c].pc = "submit"
    /\ conn' = [conn EXCEPT ![dial[c].sc] = [ConnInit EXCEPT !.pc = "dialing",
                                                              !.strong = TRUE]]
    /\ lock_holder' = DialGuardAfterSubmit(c)
    /\ dial' = [dial EXCEPT ![c].pc = DialAfterSubmit, ![c].strong = FALSE, ![c].sc = 0]
    /\ UNCHANGED << config_vars, event_vars, new_vars, spawned, caller_handles, listeners, disc,
                    substream, engine_vars >>

DialTask(c) ==
        \/ DialWake(c)
        \/ DialFillNone(c)
        \/ DialFillSome(c)
        \/ DialReportErr(c)
        \/ DialLock(c)
        \/ DialSubmit(c)

DialStep == \E c \in ChainIdx : DialTask(c)

\* The dial loop when the engine has no slot to fill.
DialIdleStep == \E c \in ChainIdx : DialWake(c) \/ DialFillNone(c)

\* ------------------------------------------------ substreams-open task
\* Lines 317-324: next_substream returns a substream to open.
SubstreamNext ==
    /\ substream.pc = "next_substream"
    /\ substream' = [substream EXCEPT !.pc = "open"]
    /\ UNCHANGED << config_vars, event_vars, new_vars, spawned, caller_handles, lock_holder,
                    listeners, disc, dial, conn, engine_vars >>

\* Lines 322-323: open completes; loop.
SubstreamOpen ==
    /\ substream.pc = "open"
    /\ substream' = [substream EXCEPT !.pc = "next_substream"]
    /\ UNCHANGED << config_vars, event_vars, new_vars, spawned, caller_handles, lock_holder,
                    listeners, disc, dial, conn, engine_vars >>

SubstreamStep == SubstreamNext \/ SubstreamOpen

\* ------------------------------------------------------ connection_task
\* Where connection_task goes when the connect future fails, lines 438-439.
ConnOnConnectErr_silent == "done"
ConnOnConnectErr == "report_err"

\* Where connection_task goes when the connect future returns Ok: to the
\* success report of line 444, before anything else.
ConnOnConnectOk_unreported == "loop"
ConnOnConnectOk == "report_ok"

\* Where connection_task goes after pending_outcome_err: `return`, line 440.
ConnAfterOutcomeErr_fallthrough == "report_ok"
ConnAfterOutcomeErr == "done"

\* The ConnectionId connection_task drives: the one pending_outcome_ok
\* returned, line 444.  The engine's ids are opaque; the ConnectionId it
\* returns for PendingId p is written p.
ConnIdUsed_fixed(returned) == 1
ConnIdUsed(returned) == returned

\* Where connection_task goes when read_write returns an error: `return`
\* without any call to the engine, lines 478-481.
ConnOnReadWriteErr_report == "report_err"
ConnOnReadWriteErr == "done"

\* The test of line 504: tcp_socket.close() is called when write_close is set
\* and the socket is not yet closed.
CloseNeeded_unchecked(write_close, closed) == write_close
CloseNeeded(write_close, closed) == write_close /\ ~closed

\* The test of line 494: the task flushes, closes and returns when write_close
\* is set and the cycle was given no read buffer.
FlushCloseNeeded_never(write_close, read_present) == FALSE
FlushCloseNeeded(write_close, read_present) == write_close /\ ~read_present

\* Lines 511-520 and 523-538: what ends the wait between two cycles.  The
\* timer is armed only for a deadline later than `now`.
SelectSources_noWakeUp(wake) ==
    {"socket"} \cup (IF wake = "future" THEN {"timer"} ELSE {})
SelectSources(wake) ==
    {"socket", "wake_up"} \cup (IF wake = "future" THEN {"timer"} ELSE {})

\* wake_up_after as read_write returns it, compared with the `now` it was
\* given: none, not later than now, later than now.
WakeUps == {"none", "past", "future"}

\* Lines 511-517: `continue` without waiting when wake_up_after is not later
\* than `now`.
CyclesImmediately(wake) == wake = "past"

\* with_buffers::WithBuffers::buffers: the read buffer is absent once the
\* peer closed its side.
BuffersReadPresent(read_open, peer_closed) == read_open /\ ~peer_closed

\* with_buffers::WithBuffers::close and is_closed: is_closed() is true from
\* the first close() on.
IsClosedAfter(closed, close_called) == closed \/ close_called

\* with_buffers::WithBuffers::buffers: the write buffer view is handed out
\* on every cycle (it is unwrapped at line 474).
BuffersWritePresent(closed) == TRUE

\* connection_task returns: its locals, the Arc among them, are dropped.
ConnEnd(p) == [conn[p] EXCEPT !.pc = "done", !.strong = FALSE,
                              !.read_open = TRUE, !.closed = FALSE,
                              !.close_calls = 0,
                              !.wake = "none"]

\* Lines 436-442: the connect future completes.
ConnConnect(p) ==
    /\ conn[p].pc = "dialing"
    /\ \E ok \in BOOLEAN :
         conn' = [conn EXCEPT ![p] =
                    IF ok THEN [conn[p] EXCEPT !.pc = ConnOnConnectOk]
                    ELSE IF ConnOnConnectErr = "done" THEN ConnEnd(p)
                    ELSE [conn[p] EXCEPT !.pc = ConnOnConnectErr]]
    /\ UNCHANGED << config_vars, event_vars, new_vars, spawned, caller_handles, lock_holder,
                    listeners, disc, dial, substream, engine_vars >>

\* Lines 439-440: pending_outcome_err(id) returns; return.
ConnReportErr(p) ==
    /\ conn[p].pc = "report_err"
    /\ outcome_err' = [outcome_err EXCEPT ![p] = @ + 1]
    /\ conn' = [conn EXCEPT ![p] =
                  IF ConnAfterOutcomeErr = "done"
                    THEN ConnEnd(p)
                    ELSE [conn[p] EXCEPT !.pc = ConnAfterOutcomeErr]]
    /\ UNCHANGED << config_vars, event_vars, new_vars, spawned, caller_handles, lock_holder,
                    listeners, disc, dial, substream, num_issued, outcome_ok,
                    rw_inflight, established >>

\* Line 444: pending_outcome_ok(id, ()) returns the ConnectionId; the engine
\* now holds the connection as established.
ConnReportOk(p) ==
    /\ conn[p].pc = "report_ok"
    /\ outcome_ok' = [outcome_ok EXCEPT ![p] = @ + 1]
    /\ established' = [established EXCEPT ![p] = TRUE]
    /\ conn' = [conn EXCEPT ![p].pc = "loop", ![p].cid = ConnIdUsed(p)]
    /\ UNCHANGED << config_vars, event_vars, new_vars, spawned, caller_handles, lock_holder,
                    listeners, disc, dial, substream, num_issued, outcome_err,
                    rw_inflight >>

\* Lines 461-468: buffers() fails; return.  No call tells the engine.
ConnBuffersErr(p) ==
    /\ conn[p].pc = "loop"
    /\ conn' = [conn EXCEPT ![p] = ConnEnd(p)]
    /\ UNCHANGED << config_vars, event_vars, new_vars, spawned, caller_handles, lock_holder,
                    listeners, disc, dial, substream, engine_vars >>

\* Lines 461-475: buffers() succeeds and read_write is called.
ConnReadWriteCall(p) ==
    /\ conn[p].pc = "loop"
    /\ \E peer_closed \in BOOLEAN :
         IF BuffersWritePresent(conn[p].closed)
           THEN /\ conn' = [conn EXCEPT
                     ![p].pc = "rw",
                     ![p].read_open = BuffersReadPresent(conn[p].read_open, peer_closed),
                     ![p].wake = "none"]
                /\ rw_inflight' = [rw_inflight EXCEPT ![conn[p].cid] = @ + 1]
           ELSE /\ conn' = [conn EXCEPT ![p] = ConnEnd(p)]
                /\ UNCHANGED rw_inflight
    /\ UNCHANGED << config_vars, event_vars, new_vars, spawned, caller_handles, lock_holder,
                    listeners, disc, dial, substream, num_issued, outcome_ok,
                    outcome_err, established >>

\* Lines 476-482: read_write returns an error, after which the engine no
\* longer holds the connection; return.
ConnReadWriteErr(p) ==
    /\ conn[p].pc = "rw"
    /\ rw_inflight' = [rw_inflight EXCEPT ![conn[p].cid] = @ - 1]
    /\ established' = [established EXCEPT ![conn[p].cid] = FALSE]
    /\ conn' = [conn EXCEPT ![p] =
                  IF ConnOnReadWriteErr = "done" THEN ConnEnd(p)
                  ELSE [conn[p] EXCEPT !.pc = ConnOnReadWriteErr]]
    /\ UNCHANGED << config_vars, event_vars, new_vars, spawned, caller_handles, lock_holder,
                    listeners, disc, dial, substream, num_issued, outcome_ok,
                    outcome_err >>

\* Lines 476-521: read_write returns Ok.  wake is the returned wake_up_after
\* compared with `now`: "none", "past" (not later than now) or "future".
ConnReadWriteOkWith(p, write_close, wake) ==
    /\ conn[p].pc = "rw"
    /\ rw_inflight' = [rw_inflight EXCEPT ![conn[p].cid] = @ - 1]
    /\ conn' = [conn EXCEPT ![p] =
         IF FlushCloseNeeded(write_close, conn[p].read_open)
           THEN [conn[p] EXCEPT !.pc = "flush_close"]
           ELSE [conn[p] EXCEPT
                   !.closed = IsClosedAfter(conn[p].closed,
                                           CloseNeeded(write_close, conn[p].closed)),
                   !.close_calls =
                       IF CloseNeeded(write_close, conn[p].closed) THEN @ + 1 ELSE @,
                   !.wake = IF CyclesImmediately(wake) THEN "none" ELSE wake,
                   !.pc = IF CyclesImmediately(wake) THEN "loop" ELSE "select"]]
    /\ UNCHANGED << config_vars, event_vars, new_vars, spawned, caller_handles, lock_holder,
                    listeners, disc, dial, substream, num_issued, outcome_ok,
                    outcome_err, established >>

ConnReadWriteOk(p) ==
    \E write_close \in BOOLEAN, wake \in WakeUps : ConnReadWriteOkWith(p, write_close, wake)

\* Lines 494-502: flush_close completes; return.
ConnFlushClose(p) ==
    /\ conn[p].pc = "flush_close"
    /\ conn' = [conn EXCEPT ![p] = ConnEnd(p)]
    /\ UNCHANGED << config_vars, event_vars, new_vars, spawned, caller_handles, lock_holder,
                    listeners, disc, dial, substream, engine_vars >>

\* Lines 523-538: the future named src of the select! completes first.
ConnSelectBy(p, src) ==
    /\ conn[p].pc = "select"
    /\ src \in SelectSources(conn[p].wake)
    /\ conn' = [conn EXCEPT ![p].pc = "loop", ![p].wake = "none"]
    /\ UNCHANGED << config_vars, event_vars, new_vars, spawned, caller_handles, lock_holder,
                    listeners, disc, dial, substream, engine_vars >>

ConnSelect(p) == \E src \in {"socket", "wake_up", "timer"} : ConnSelectBy(p, src)

ConnTask(p) ==
        \/ ConnConnect(p)
        \/ ConnReportErr(p)
        \/ ConnReportOk(p)
        \/ ConnBuffersErr(p)
        \/ ConnReadWriteCall(p)
        \/ ConnReadWriteErr(p)
        \/ ConnReadWriteOk(p)
        \/ ConnFlushClose(p)
        \/ ConnSelect(p)

ConnStep == \E p \in PendingIds : ConnTask(p)

\* ------------------------------------------------------------ next_event
PeerIds == {"peerA", "peerB"}
Announces == {"announce1", "announce2"}
BestNumbers == {7, 8}
IdentifyRequests == {"request1"}
\* The chains of the configuration: the indices the engine's events name.
ConfiguredChains == {c \in ChainIdx : c < num_chains}

ChainIndexLists == {<<>>} \cup {<<c>> : c \in ConfiguredChains}
                       \cup {<<c, d>> : c, d \in ConfiguredChains}

\* service::Event, as matched at lines 359-412.
EngineEvents ==
    [kind : {"Connected"}, peer_id : PeerIds]
    \cup [kind : {"Disconnected"}, peer_id : PeerIds, chain_indices : ChainIndexLists]
    \cup [kind : {"BlockAnnounce"}, chain_index : ConfiguredChains, peer_id : PeerIds,
          announce : Announces]
    \cup [kind : {"ChainConnected"}, peer_id : PeerIds, chain_index : ConfiguredChains,
          best_number : BestNumbers]
    \cup [kind : {"ChainDisconnected"}, peer_id : PeerIds, chain_index : ConfiguredChains]
    \cup [kind : {"IdentifyRequestIn"}, peer_id : PeerIds, request : IdentifyRequests]

\* The string passed to request.respond, line 411.
AgentString == "smoldot"

\* The Event a match arm of lines 359-412 builds for its `return`; NoEvent
\* for the arms that build none.  chain_indices[0] of the source is the
\* first element, chain_indices[1] here.
Translate_chainZero(e) ==
    CASE e.kind = "Disconnected" /\ e.chain_indices # <<>> ->
            [kind |-> "Disconnected", chain_index |-> e.chain_indices[1],
             peer_id |-> e.peer_id]
      [] e.kind = "BlockAnnounce" ->
            [kind |-> "BlockAnnounce", chain_index |-> e.chain_index,
             peer_id |-> e.peer_id, announce |-> e.announce]
      [] e.kind = "ChainConnected" ->
            [kind |-> "Connected", peer_id |-> e.peer_id,
             chain_index |-> e.chain_index, best_block_number |-> e.best_number]
      [] e.kind = "ChainDisconnected" ->
            [kind |-> "Disconnected", chain_index |-> 0, peer_id |-> e.peer_id]
      [] OTHER -> NoEvent

Translate(e) ==
    CASE e.kind = "Disconnected" /\ e.chain_indices # <<>> ->
            [kind |-> "Disconnected", chain_index |-> e.chain_indices[1],
             peer_id |-> e.peer_id]
      [] e.kind = "BlockAnnounce" ->
            [kind |-> "BlockAnnounce", chain_index |-> e.chain_index,
             peer_id |-> e.peer_id, announce |-> e.announce]
      [] e.kind = "ChainConnected" ->
            [kind |-> "Connected", peer_id |-> e.peer_id,
             chain_index |-> e.chain_index, best_block_number |-> e.best_number]
      [] e.kind = "ChainDisconnected" ->
            [kind |-> "Disconnected", chain_index |-> e.chain_index,
             peer_id |-> e.peer_id]
      [] OTHER -> NoEvent

\* Where next_event can be after the match arm of an event: "returned"
\* after a `return`, "respond" inside request.respond(..).await, "await"
\* back at network.next_event().await.  The debug_assert_eq! of line 369
\* panics in a build with debug assertions and is absent from the others,
\* so a Disconnected naming several chains has both outcomes.
NextEventAfter_dropsAnnounce(e) ==
    CASE e.kind = "Connected" -> {"await"}
      [] e.kind = "Disconnected" ->
            IF e.chain_indices = <<>> THEN {"await"}
            ELSE IF Len(e.chain_indices) # 1 THEN {"panicked", "returned"}
            ELSE {"returned"}
      [] e.kind = "BlockAnnounce" -> {"await"}
      [] e.kind = "IdentifyRequestIn" -> {"respond"}
      [] OTHER -> {"returned"}

NextEventAfter(e) ==
    CASE e.kind = "Connected" -> {"await"}
      [] e.kind = "Disconnected" ->
            IF e.chain_indices = <<>> THEN {"await"}
            ELSE IF Len(e.chain_indices) # 1 THEN {"panicked", "returned"}
            ELSE {"returned"}
      [] e.kind = "IdentifyRequestIn" -> {"respond"}
      [] OTHER -> {"returned"}

\* The shape of an event: its variant, and for Disconnected how many chains
\* it names.
EventShape(e) ==
    IF e.kind # "Disconnected" THEN e.kind
    ELSE IF e.chain_indices = <<>> THEN "Disconnected0"
    ELSE IF Len(e.chain_indices) = 1 THEN "Disconnected1"
    ELSE "DisconnectedN"

\* service::ChainNetwork::next_event: the events are handed out in the
\* order the engine produced them, each to the one call that receives it.
EngineNextEvent(pulled) == pulled + 1

\* The engine produces an event (the buffer of line 217 holds it until a
\* call takes it).
EngineEmit ==
    /\ engine_created
    /\ ev_emitted < MaxEvents
    /\ ev_emitted' = ev_emitted + 1
    /\ UNCHANGED << config_vars, new_vars, spawned, caller_handles, lock_holder,
                    task_vars, engine_vars, ev_pulled, ev_shape, consumed,
                    delivered, answered, callers >>

\* Line 357: a holder of the service calls next_event.
NextEventCall(k) ==
    /\ caller_handles >= 1
    /\ callers[k].pc = "idle"
    /\ callers' = [callers EXCEPT ![k].pc = "await"]
    /\ UNCHANGED << config_vars, new_vars, spawned, caller_handles, lock_holder,
                    task_vars, engine_vars, ev_emitted, ev_pulled, ev_shape,
                    consumed, delivered, answered >>

\* Lines 359-412: network.next_event() completes with an event and its
\* match arm runs, up to the arm's return, await or end.
NextEventPull(k) ==
    /\ callers[k].pc = "await"
    /\ ev_pulled < ev_emitted
    /\ \E e \in EngineEvents : \E after \in NextEventAfter(e) :
         LET id == EngineNextEvent(ev_pulled)
         IN  /\ ev_pulled' = id
             /\ ev_shape' = [ev_shape EXCEPT ![id] = EventShape(e)]
             /\ consumed' = [consumed EXCEPT ![id] = @ + 1]
             /\ delivered' = [delivered EXCEPT
                                ![id] = IF after = "returned" THEN @ + 1 ELSE @]
             /\ callers' = [callers EXCEPT ![k] =
                   [pc |-> after,
                    id |-> id,
                    ev |-> IF after \in {"returned", "respond"} THEN e ELSE NoEvent,
                    ret |-> IF after = "returned" THEN Translate(e) ELSE NoEvent]]
    /\ UNCHANGED << config_vars, new_vars, spawned, caller_handles, lock_holder,
                    task_vars, engine_vars, ev_emitted, answered >>

\* Line 411: request.respond("smoldot") completes; the loop goes round.
NextEventRespond(k) ==
    /\ callers[k].pc = "respond"
    /\ answered' = [answered EXCEPT ![callers[k].id] = AgentString]
    /\ callers' = [callers EXCEPT ![k].pc = "await", ![k].ev = NoEvent]
    /\ UNCHANGED << config_vars, new_vars, spawned, caller_handles, lock_holder,
                    task_vars, engine_vars, ev_emitted, ev_pulled, ev_shape,
                    consumed, delivered >>

\* The caller takes the Event next_event returned.
NextEventTake(k) ==
    /\ callers[k].pc = "returned"
    /\ callers' = [callers EXCEPT ![k] = CallerInit]
    /\ UNCHANGED << config_vars, new_vars, spawned, caller_handles, lock_holder,
                    task_vars, engine_vars, ev_emitted, ev_pulled, ev_shape,
                    consumed, delivered, answered >>

NextEventStep ==
    \E k \in Callers :
        NextEventCall(k) \/ NextEventPull(k) \/ NextEventRespond(k) \/ NextEventTake(k)

\* -------------------------------------------------------- specifications
Next ==
    \/ NewStep
    \/ EngineEmit
    \/ NextEventStep
    \/ CallerStep
    \/ ListenerStep
    \/ DiscStep
    \/ DialStep
    \/ SubstreamStep
    \/ ConnStep

\* A configuration whose construction can succeed, with every chain present.
RunListen == << <<"ip4", "tcp">> >>
InitRun == Init /\ listen_addresses = RunListen /\ num_chains = MaxChains

Spec == InitRun /\ [][Next]_vars

\* Construction over every configuration, with the listener tasks running.
SpecNew == Init /\ [][NewStep \/ ListenerStep]_vars

\* The dial tasks and the connection tasks they spawn.
SpecConn == InitRun /\ [][NewStep \/ DialStep \/ ConnStep]_vars

\* The dial tasks and the dialing phase of the connection tasks: everything
\* that reports the outcome of a PendingId.
ConnDialing(p) == ConnConnect(p) \/ ConnReportErr(p) \/ ConnReportOk(p)

ConnDialingStep == \E p \in PendingIds : ConnDialing(p)

SpecOutcome == InitRun /\ [][NewStep \/ DialStep \/ ConnDialingStep]_vars

\* SpecOutcome with every task the executor was handed scheduled fairly,
\* every engine call and connect attempt completing, and the parking_lot
\* mutex eventually granted to a waiting dial task.
FairSpecOutcome ==
    /\ SpecOutcome
    /\ \A c \in ChainIdx : WF_vars(DialTask(c)) /\ SF_vars(DialLock(c))
    /\ \A p \in PendingIds : WF_vars(ConnDialing(p))

\* One chain: a single dial task and the connection tasks it spawns, running
\* their I/O loops side by side.
InitIo == Init /\ listen_addresses = RunListen /\ num_chains = 1

SpecIo == InitIo /\ [][NewStep \/ DialStep \/ ConnStep]_vars

\* The engine's events and the next_event calls of the service's holders.
InitTwoChains == Init /\ listen_addresses = RunListen /\ num_chains = 2

SpecEvents == InitTwoChains /\ [][NewStep \/ EngineEmit \/ NextEventStep]_vars

\* Construction and the discovery tasks.
SpecDisc == InitRun /\ [][NewStep \/ DiscStep]_vars

\* Every background task of construction and the caller's handles, with an
\* engine that has no outbound slot to fill.
SpecLife ==
    InitRun /\ [][NewStep \/ CallerStep \/ ListenerStep \/ DiscStep \/ DialIdleStep
                  \/ SubstreamStep]_vars

\* ------------------------------------------------------------- properties
OutcomeReports(p) == outcome_ok[p] + outcome_err[p]

\* C1: every PendingId returned by fill_out_slots has at most one outcome
\* report (pending_outcome_ok plus pending_outcome_err) in every reachable
\* state: never both, never twice.
C1_OutcomeAtMostOnce ==
    \A p \in PendingIds :
        /\ OutcomeReports(p) <= 1
        /\ p > num_issued => OutcomeReports(p) = 0

\* Two tokens are settled, one by connection_task's success report and one
\* by the dial task's own failure report.
C1_Witness ==
    \E p, q \in PendingIds :
        /\ outcome_ok[p] = 1 /\ conn[p].pc # "none"
        /\ outcome_err[q] = 1 /\ conn[q].pc = "none"

\* C2: under fair scheduling every PendingId returned by fill_out_slots
\* eventually has an outcome reported.
C2_OutcomeEventually ==
    \A p \in PendingIds : (num_issued >= p) ~> (OutcomeReports(p) >= 1)

\* A token whose connect attempt failed has its failure reported by the
\* connection task.
C2_Witness ==
    \E p \in PendingIds : conn[p].pc = "done" /\ conn[p].cid = 0 /\ outcome_err[p] = 1

\* C3: for every ConnectionId at most one read_write call is in flight.
C3_ReadWriteSequential == \A k \in ConnectionIds : rw_inflight[k] <= 1

\* Two connection tasks are inside read_write at the same time, each for
\* its own ConnectionId.
C3_Witness ==
    \E p, q \in PendingIds :
        /\ p # q
        /\ conn[p].pc = "rw" /\ conn[q].pc = "rw"
        /\ conn[p].cid # conn[q].cid
        /\ rw_inflight[conn[p].cid] = 1 /\ rw_inflight[conn[q].cid] = 1

\* C4: once the caller has released every handle it owned, a discovery or
\* dial task that wakes up finds the service gone and terminates.
C4_TasksStopOnceReleased ==
    [][ (new_result = <<"Ok">> /\ caller_handles = 0) =>
          \A c \in ChainIdx :
              /\ (disc[c].pc = "delay" /\ disc'[c].pc # "delay") => disc'[c].pc = "done"
              /\ (dial[c].pc = "delay" /\ dial'[c].pc # "delay") => dial'[c].pc = "done"
      ]_vars

\* C5: no background task of construction captures or, between two
\* iterations, holds a strong reference to the service.
C5_TasksHoldOnlyWeak ==
    /\ substream.capture # "strong"
    /\ substream.pc \in {"next_substream", "open"} => ~substream.strong
    /\ \A c \in ChainIdx :
        /\ disc[c].capture # "strong" /\ dial[c].capture # "strong"
        /\ disc[c].pc = "delay" => ~disc[c].strong
        /\ dial[c].pc = "delay" => ~dial[c].strong

\* The listen addresses the specification calls supported: exactly two
\* components, an ip4 or ip6 literal and then a tcp port.
SupportedListen(addr) == addr \in { <<"ip4", "tcp">>, <<"ip6", "tcp">> }
BadListenIdx == { i \in 1..Len(listen_addresses) : ~SupportedListen(listen_addresses[i]) }
FirstBadListen == CHOOSE i \in BadListenIdx : \A j \in BadListenIdx : i <= j
NewFinished == new_pc \in {"ok", "err", "panic"}

\* C6 as stated: a configuration containing an unsupported listen address
\* makes `new` return BadListenMultiaddr without any bind attempt.
C6_Original ==
    BadListenIdx # {} =>
        /\ bind_attempts = {}
        /\ NewFinished => new_result[1] = "BadListenMultiaddr"

\* C6 amended: with an unsupported listen address in the configuration,
\* bind is attempted only for the addresses before the first unsupported
\* one; `new` returns BadListenMultiaddr for that first one, having bound
\* all the earlier ones, unless binding an earlier one failed, in which case
\* it returns ListenerIo for the one that failed.
C6_BadListenNoBind ==
    BadListenIdx # {} =>
        /\ bind_attempts \subseteq 1..(FirstBadListen - 1)
        /\ new_pc # "ok"
        /\ NewFinished =>
             \/ /\ new_result = <<"BadListenMultiaddr", FirstBadListen>>
                /\ bind_attempts = 1..(FirstBadListen - 1)
             \/ /\ new_result[1] = "ListenerIo"
                /\ new_result[2] < FirstBadListen
                /\ bind_attempts = 1..new_result[2]

\* `new` returned BadListenMultiaddr for the second address after binding
\* the first.
C6_Witness ==
    /\ new_result = <<"BadListenMultiaddr", 2>>
    /\ bind_attempts = {1}
    /\ Len(listen_addresses[2]) = 3

\* C7: for a supported two-component listen address the parse-and-bind
\* step neither panics nor returns BadListenMultiaddr: `new` goes on past
\* the address, its listener submitted, or returns ListenerIo for it.
C7_SupportedListenOutcome ==
    \A i \in 1..Len(listen_addresses) :
        SupportedListen(listen_addresses[i]) =>
            /\ new_result # <<"BadListenMultiaddr", i>>
            /\ (new_pc = "err" /\ new_result[2] = i) =>
                   (new_result = <<"ListenerIo", i>> /\ i \in bind_attempts)
            /\ (i \in bind_attempts /\ new_result # <<"ListenerIo", i>>) =>
                   (listeners[i] # "none" /\ (new_idx > i \/ engine_created))
            /\ (new_pc = "panic" => engine_created)

\* An ip6 address was bound and the next, an ip4 one, failed to bind.
C7_Witness ==
    /\ Len(listen_addresses) = 2
    /\ listen_addresses[1] = <<"ip6", "tcp">>
    /\ listeners[1] # "none"
    /\ new_result = <<"ListenerIo", 2>>

CountSpawned(kind, idx) ==
    Cardinality({ k \in 1..Len(spawned) : spawned[k] = <<kind, idx>> })

\* C8: a successful construction with L listen addresses and C chains has
\* submitted exactly L listener tasks, C discovery tasks, C dial tasks (one
\* of each per chain index 0..C-1) and one substreams-open task, and no step
\* of construction waits for a submitted task.
C8_SpawnedOnSuccess ==
    /\ new_result = <<"Ok">> =>
        /\ Len(spawned) = Len(listen_addresses) + 2 * num_chains + 1
        /\ \A i \in 1..Len(listen_addresses) : CountSpawned("listener", i) = 1
        /\ \A c \in 0..(num_chains - 1) :
               CountSpawned("discovery", c) = 1 /\ CountSpawned("dial", c) = 1
        /\ CountSpawned("substream", 0) = 1
        /\ caller_handles >= 1
    /\ ~NewFinished => ENABLED NewStep

\* `new` returned Ok for a configuration with listen addresses and chains
\* while no submitted task has made a step.
C8_Witness ==
    /\ new_result = <<"Ok">>
    /\ Len(listen_addresses) = MaxListen
    /\ num_chains = MaxChains
    /\ \A i \in 1..Len(listen_addresses) : listeners[i] = "accept"
    /\ \A c \in 0..(num_chains - 1) :
           disc[c].pc = "delay" /\ disc[c].waits = 0 /\ dial[c].pc = "delay"
    /\ substream.pc = "next_substream"

\* C9: when parsing or binding a listen address fails, nothing of a partial
\* service remains: no engine, no handle, no submitted work item, no
\* listen socket left open.
C9_FailureLeavesNothing ==
    new_pc = "err" =>
        /\ ~engine_created
        /\ caller_handles = 0
        /\ spawned = <<>>
        /\ \A i \in ListenIdx : listeners[i] \notin {"accept", "cooldown"}

\* The waits the specification lists: 5, 10, 20, 40, 80, 120, 120, 120, ...
ExpectedWait(k) == IF k <= 8 THEN <<5, 10, 20, 40, 80, 120, 120, 120>>[k] ELSE 120

\* C10: the k-th wait of a discovery task is the k-th term of 5, 10, 20, 40,
\* 80, 120, 120, ..., whatever the outcomes of the rounds so far, and a
\* discovery task ends only when the service is gone.
C10_DiscoveryBackoff ==
    \A c \in ChainIdx :
        /\ disc[c].waits >= 1 => disc[c].last_wait = ExpectedWait(disc[c].waits)
        /\ disc[c].next_discovery = ExpectedWait(disc[c].waits + 1)
        /\ disc[c].pc = "done" => ~Upgrade

\* A discovery task made its 8th wait, of 120 seconds, after rounds that
\* succeeded and rounds that failed.
C10_Witness ==
    \E c \in ChainIdx :
        /\ disc[c].waits = 8 /\ disc[c].last_wait = 120
        /\ disc[c].saw_ok /\ disc[c].saw_err

\* C13: a read_write cycle that was given no read buffer and returns
\* write_close takes the task to flush_close; from there the task only
\* returns, without calling the engine; and a task that has returned takes
\* no further step, so no read_write follows for its ConnectionId.
C13_FlushCloseEnds ==
    [][\A p \in PendingIds :
         /\ \A wake \in WakeUps :
              (ConnReadWriteOkWith(p, TRUE, wake) /\ ~conn[p].read_open)
                 => conn'[p].pc = "flush_close"
         /\ conn[p].pc = "flush_close"
               => /\ conn'[p].pc \in {"flush_close", "done"}
                  /\ rw_inflight'[conn[p].cid] = 0
                  /\ conn'[p].pc = "done" => established' = established
         /\ conn[p].pc = "done"
               => /\ conn'[p] = conn[p]
                  /\ \A k \in ConnectionIds :
                        k = conn[p].cid => rw_inflight'[k] = rw_inflight[k]]_vars

C13_Witness ==
    \E p \in PendingIds :
        /\ conn[p].pc = "flush_close"
        /\ ~conn[p].read_open
        /\ outcome_ok[p] = 1

\* The positions of connection_task inside its I/O loop.
ConnInLoop(pc) == pc \in {"loop", "rw", "select", "flush_close"}

\* C14: a connection task is inside its I/O loop only after the success
\* report for its PendingId, and every read_write it issues is for the
\* ConnectionId that report returned; a failed connect leads to the failure
\* report and to the end of the task, which never held a ConnectionId and
\* never issued a read_write; and a dial task ends only when the upgrade
\* of its Weak fails, never because a connection task it spawned failed.
C14_ReadWriteAfterSuccessReport ==
    [][/\ \A p \in PendingIds :
            /\ ConnInLoop(conn'[p].pc)
                  => /\ outcome_ok'[p] = 1
                     /\ outcome_err'[p] = 0
                     /\ conn'[p].cid = p
            /\ rw_inflight'[p] > rw_inflight[p]
                  => /\ conn[p].pc = "loop" /\ conn'[p].pc = "rw"
                     /\ outcome_ok[p] = 1
            /\ (conn[p].pc = "dialing" /\ conn'[p].pc # "dialing")
                  => conn'[p].pc \in {"report_ok", "report_err"}
            /\ (conn[p].pc = "report_err" /\ conn'[p].pc # "report_err")
                  => /\ conn'[p].pc = "done"
                     /\ outcome_err'[p] = 1
            /\ outcome_err'[p] > 0
                  => /\ conn'[p].pc \in {"none", "done"}
                     /\ conn'[p].cid = 0
                     /\ rw_inflight'[p] = 0
       /\ \A c \in ChainIdx :
            (dial'[c].pc = "done" /\ dial[c].pc # "done")
                  => dial[c].pc = "delay" /\ ~Upgrade]_vars

C14_Witness ==
    /\ \E p \in PendingIds :
          conn[p].pc = "done" /\ outcome_err[p] = 1 /\ conn[p].cid = 0
    /\ \E p \in PendingIds :
          conn[p].pc = "rw" /\ rw_inflight[p] = 1 /\ outcome_ok[p] = 1
    /\ \E c \in ChainIdx : dial[c].pc = "fill"

\* The shapes C15 names: exactly two components, one of ip4, ip6, dns, dns4,
\* dns6 first and tcp second.
SupportedDial(addr) ==
    addr \in { <<"ip4", "tcp">>, <<"ip6", "tcp">>, <<"dns", "tcp">>,
               <<"dns4", "tcp">>, <<"dns6", "tcp">> }

\* C15: when fill_out_slots returns a slot, the dial task goes on to spawn a
\* connection task exactly when the target has one of the five supported
\* shapes; for every other target its next step reports the PendingId as
\* failed and returns to the loop's Delay, and no connection task ever
\* exists for that PendingId.  A connection task comes into being only by
\* the submission of a dial task, and starts by dialing.
C15_DialIffSupported ==
    [][/\ \A c \in ChainIdx :
            /\ \A multiaddr \in DialAddrs :
                  DialFillSomeWith(c, multiaddr)
                     => /\ dial'[c].pc =
                             IF SupportedDial(multiaddr) THEN "lock" ELSE "report_err"
                        /\ conn' = conn
                        /\ outcome_err' = outcome_err
            /\ (dial[c].pc = "fill" /\ dial'[c].pc # "fill")
                  => dial'[c].pc \in {"delay", "lock", "report_err"}
            /\ (dial[c].pc = "report_err" /\ dial'[c].pc # "report_err")
                  => /\ outcome_err'[dial[c].sc] = 1
                     /\ conn'[dial[c].sc].pc = "none"
                     /\ dial'[c].pc = "delay"
            /\ (dial[c].pc = "lock" /\ dial'[c].pc # "lock")
                  => dial'[c].pc = "submit" /\ dial'[c].sc = dial[c].sc
            /\ (dial[c].pc = "submit" /\ dial'[c].pc # "submit")
                  => /\ conn[dial[c].sc].pc = "none"
                     /\ conn'[dial[c].sc].pc = "dialing"
                     /\ dial'[c].pc = "delay"
       /\ \A p \in PendingIds :
            /\ (conn[p].pc = "none" /\ conn'[p].pc # "none")
                  => /\ conn'[p].pc = "dialing"
                     /\ outcome_err[p] = 0
                     /\ \E c \in ChainIdx : dial[c].pc = "submit" /\ dial[c].sc = p
            /\ (conn[p].pc = "none" /\ outcome_err[p] > 0)
                  => conn'[p].pc = "none"]_vars

C15_Witness ==
    /\ \E p \in PendingIds : conn[p].pc = "none" /\ outcome_err[p] = 1
    /\ \E p \in PendingIds : conn[p].pc = "dialing"
    /\ \E c \in ChainIdx : dial[c].pc = "delay" /\ dial[c].strong = FALSE

\* C16: when the task of an established connection ends because buffers()
\* reported a transport I/O failure (the only step from the top of the loop
\* to the end of the task), the engine no longer holds that ConnectionId as
\* established.
C16_EngineNotifiedAtEnd ==
    [][\A p \in PendingIds :
         (conn[p].pc = "loop" /\ conn'[p].pc = "done")
            => ~established'[conn[p].cid]]_vars

\* C17: a listener task that has entered its accept loop never terminates,
\* whatever accept returns.
C17_ListenerNeverEnds ==
    \A i \in ListenIdx : listeners[i] # "panicked"

\* C18: a connection task is suspended between two cycles only when the
\* deadline the engine returned is absent or later than the cycle's
\* timestamp (with an elapsed deadline the step that ends the cycle leads
\* straight to the top of the loop); while it is suspended, transport
\* readiness and the engine's wake-up signal can each end the wait, the
\* timer can exactly when a deadline was returned, and whichever ends the
\* wait leads to the next cycle.
C18_ThreeWayWait ==
    [][\A p \in PendingIds :
         /\ \A write_close \in BOOLEAN, wake \in WakeUps :
              (ConnReadWriteOkWith(p, write_close, wake) /\ conn'[p].pc # "flush_close")
                 => IF wake = "past"
                      THEN conn'[p].pc = "loop"
                      ELSE conn'[p].pc = "select" /\ conn'[p].wake = wake
         /\ conn'[p].pc = "select"
               => /\ conn'[p].wake \in {"none", "future"}
                  /\ conn[p].pc \in {"rw", "select"}
         /\ conn[p].pc = "select"
               => /\ ENABLED ConnSelectBy(p, "socket")
                  /\ ENABLED ConnSelectBy(p, "wake_up")
                  /\ (ENABLED ConnSelectBy(p, "timer")) <=> (conn[p].wake = "future")
                  /\ conn'[p].pc \in {"select", "loop"}
                  /\ rw_inflight' = rw_inflight \/ conn'[p] = conn[p]]_vars

C18_Witness ==
    \E p, q \in PendingIds :
        /\ conn[p].pc = "select" /\ conn[p].wake = "future"
        /\ conn[q].pc = "select" /\ conn[q].wake = "none"

\* C19: a read_write cycle that was given a read buffer and returns
\* write_close does not end the task: it stays inside the loop with its
\* socket closed, having called close() exactly when the socket was not
\* closed before; close() is called at most once per connection and by no
\* other step; and at the top of the loop of a closed socket the next
\* read_write can still be issued, for the same ConnectionId.
C19_HalfCloseContinues ==
    [][\A p \in PendingIds :
         /\ \A wake \in WakeUps :
              (ConnReadWriteOkWith(p, TRUE, wake) /\ conn[p].read_open)
                 => /\ conn'[p].pc \in {"loop", "select"}
                    /\ conn'[p].closed
                    /\ conn'[p].read_open
                    /\ conn'[p].close_calls =
                          conn[p].close_calls + (IF conn[p].closed THEN 0 ELSE 1)
         /\ conn'[p].close_calls <= 1
         /\ conn'[p].close_calls > conn[p].close_calls
               => /\ conn[p].pc = "rw"
                  /\ conn[p].read_open
                  /\ ~conn[p].closed
         /\ (conn[p].pc = "select" /\ conn[p].closed)
               => /\ ENABLED ConnSelectBy(p, "socket")
                  /\ conn'[p].pc \in {"select", "loop"}
         /\ (conn[p].pc = "loop" /\ conn[p].closed)
               => /\ ENABLED ConnReadWriteCall(p)
                  /\ conn'[p].pc \in {"loop", "rw", "done"}
         /\ (conn[p].pc = "loop" /\ conn[p].closed /\ conn'[p].pc = "rw")
               => rw_inflight'[p] = 1]_vars

C19_Witness ==
    \E p \in PendingIds :
        /\ conn[p].pc = "rw"
        /\ conn[p].closed
        /\ conn[p].close_calls = 1
        /\ conn[p].read_open
        /\ rw_inflight[p] = 1

\* C20: the step by which a connection task leaves a read_write call that
\* returned a fatal error ends that task and nothing else: no outcome is
\* reported and no PendingId issued, no read_write of that id stays in
\* flight, and every other connection task, every dial, discovery, listener
\* and substream task, the lock and the caller's handles are as before; no
\* step out of a read_write call leads to an error report; and the ended
\* task never steps again.
C20_FatalErrorEndsOnlyThatTask ==
    [][\A p \in PendingIds :
         /\ (conn[p].pc = "rw" /\ conn'[p].pc = "done")
               => /\ outcome_ok' = outcome_ok
                  /\ outcome_err' = outcome_err
                  /\ num_issued' = num_issued
                  /\ rw_inflight'[p] = 0
                  /\ \A q \in PendingIds \ {p} :
                        /\ conn'[q] = conn[q]
                        /\ rw_inflight'[q] = rw_inflight[q]
                        /\ established'[q] = established[q]
                  /\ dial' = dial /\ disc' = disc /\ substream' = substream
                  /\ listeners' = listeners /\ lock_holder' = lock_holder
                  /\ caller_handles' = caller_handles /\ new_pc' = new_pc
         /\ (conn[p].pc = "rw" /\ conn'[p].pc # "rw")
               => conn'[p].pc \in {"done", "loop", "select", "flush_close"}
         /\ (conn[p].pc = "done" /\ outcome_ok[p] = 1)
               => /\ conn'[p] = conn[p]
                  /\ rw_inflight'[p] = 0
                  /\ outcome_ok'[p] = 1 /\ outcome_err'[p] = 0]_vars

C20_Witness ==
    \E p, q \in PendingIds :
        /\ conn[p].pc = "done" /\ outcome_ok[p] = 1 /\ ~established[p]
        /\ conn[q].pc = "rw" /\ rw_inflight[q] = 1
        /\ \E c \in ChainIdx : dial[c].pc = "fill"

\* The shapes of the engine events that next_event consumes without
\* returning, and of those it returns for.
DroppedShapes == {"Connected", "Disconnected0", "IdentifyRequestIn"}
ReturnedShapes == {"ChainConnected", "ChainDisconnected", "BlockAnnounce", "Disconnected1"}

\* C11: a next_event call that has returned holds an engine event with a
\* public equivalent and returns that equivalent with the engine event's
\* own fields: ChainConnected gives Connected, ChainDisconnected gives
\* Disconnected, BlockAnnounce gives BlockAnnounce, a Disconnected naming one
\* chain gives Disconnected for that chain.  An event that is a transport
\* Connected, a Disconnected naming no chain or an IdentifyRequestIn is never
\* returned; the call that consumed it is inside request.respond, or back
\* at network.next_event() with the request answered "smoldot".
C11_NextEventMapping ==
    /\ \A k \in Callers :
         LET e == callers[k].ev
             r == callers[k].ret
         IN  /\ callers[k].pc = "returned"
                   => /\ e.kind \in {"ChainConnected", "ChainDisconnected",
                                     "BlockAnnounce", "Disconnected"}
                      /\ e.kind = "ChainConnected"
                            => r = [kind |-> "Connected",
                                    chain_index |-> e.chain_index,
                                    peer_id |-> e.peer_id,
                                    best_block_number |-> e.best_number]
                      /\ e.kind = "ChainDisconnected"
                            => r = [kind |-> "Disconnected",
                                    chain_index |-> e.chain_index,
                                    peer_id |-> e.peer_id]
                      /\ e.kind = "BlockAnnounce"
                            => r = [kind |-> "BlockAnnounce",
                                    chain_index |-> e.chain_index,
                                    peer_id |-> e.peer_id,
                                    announce |-> e.announce]
                      /\ e.kind = "Disconnected"
                            => /\ e.chain_indices # <<>>
                               /\ Len(e.chain_indices) = 1
                                     => r = [kind |-> "Disconnected",
                                             chain_index |-> e.chain_indices[1],
                                             peer_id |-> e.peer_id]
             /\ callers[k].pc = "respond"
                   => e.kind = "IdentifyRequestIn" /\ ENABLED NextEventRespond(k)
             /\ (callers[k].pc = "await" /\ callers[k].id # 0)
                   => /\ ev_shape[callers[k].id] \in DroppedShapes
                      /\ r = NoEvent
                      /\ ev_shape[callers[k].id] = "IdentifyRequestIn"
                            => answered[callers[k].id] = "smoldot"
                      /\ ev_pulled < ev_emitted => ENABLED NextEventPull(k)
    /\ \A id \in EventIds :
         /\ ev_shape[id] \in DroppedShapes => delivered[id] = 0
         /\ answered[id] # "none"
               => answered[id] = "smoldot" /\ ev_shape[id] = "IdentifyRequestIn"

C11_Witness ==
    /\ \E k \in Callers :
          /\ callers[k].pc = "returned"
          /\ callers[k].ev.kind = "ChainConnected"
          /\ callers[k].ret.kind = "Connected"
          /\ callers[k].id = 2
    /\ ev_shape[1] = "IdentifyRequestIn"
    /\ answered[1] = "smoldot"

\* C12: with several next_event calls in progress, every event the engine
\* has handed out was handed to exactly one call and the events not yet
\* handed out are still to come, in order; an event that maps to a public
\* Event has been returned exactly once; no two calls hold the same event;
\* and a call waiting for the engine can take the next event whenever one
\* is pending, so no event is lost.
C12_EachEventOnce ==
    /\ ev_pulled <= ev_emitted
    /\ \A id \in EventIds :
         /\ consumed[id] = (IF id <= ev_pulled THEN 1 ELSE 0)
         /\ delivered[id] <= consumed[id]
         /\ ev_shape[id] \in ReturnedShapes => delivered[id] = 1
         /\ (ev_shape[id] = "none") <=> (consumed[id] = 0)
         /\ Cardinality({k \in Callers : callers[k].id = id}) <= 1
    /\ \A k \in Callers :
         /\ callers[k].pc = "returned"
               => /\ delivered[callers[k].id] = 1
                  /\ callers[k].ret # NoEvent
         /\ (callers[k].pc = "await" /\ ev_pulled < ev_emitted)
               => ENABLED NextEventPull(k)

C12_Witness ==
    \E k, j \in Callers :
        /\ callers[k].pc = "returned" /\ callers[k].id = 1
        /\ callers[j].pc = "returned" /\ callers[j].id = 2
        /\ delivered[1] = 1 /\ delivered[2] = 1

\* C21: the dial task does not wait for a connection task it has submitted.
\* The step that submits the task takes the dial task back to its Delay with
\* the new connection task still Dialing, and while connection tasks are
\* Dialing the dial task's poll stays enabled: the Delay can elapse, and
\* fill_out_slots can hand out a further pending connection.
C21_DialDoesNotWait ==
    [][\A c \in ChainIdx :
          /\ DialSubmit(c) =>
                /\ dial'[c].pc = "delay"
                /\ conn'[dial[c].sc].pc = "dialing"
          /\ (dial[c].pc = "delay" /\ \E p \in PendingIds : conn[p].pc = "dialing")
                => ENABLED DialWake(c)
          /\ (dial[c].pc = "fill" /\ num_issued < MaxPending
                  /\ \E p \in PendingIds : conn[p].pc = "dialing")
                => ENABLED DialFillSome(c)]_vars

\* With a single chain, two connection tasks are Dialing at the same time
\* and the dial task is back at its Delay.
C21_Witness ==
    /\ num_chains = 1
    /\ dial[0].pc = "delay"
    /\ \E p, q \in PendingIds : p # q /\ conn[p].pc = "dialing" /\ conn[q].pc = "dialing"

\* The positions of a dial task at which it is suspended: the Delay, the
\* engine calls fill_out_slots and pending_outcome_err, and the wait for the
\* spawner lock itself.
DialSuspended(c) == dial[c].pc \in {"delay", "fill", "report_err", "lock"}

\* C22: the spawner lock is held only while one work item is submitted.
\* Whoever holds it is a dial task inside the executor call, at most one
\* task is inside that call, no task holds the lock at a suspension point or
\* after it has ended, and under fair scheduling a dial task that waits for
\* the lock acquires it.
C22_LockOnlyForSubmit ==
    /\ [](/\ lock_holder # NoHolder =>
                \E c \in ChainIdx : lock_holder = <<"dial", c>> /\ dial[c].pc = "submit"
          /\ Cardinality({c \in ChainIdx : dial[c].pc = "submit"}) <= 1
          /\ \A c \in ChainIdx :
                (DialSuspended(c) \/ dial[c].pc \in {"none", "done"})
                    => lock_holder # <<"dial", c>>)
    /\ \A c \in ChainIdx : (dial[c].pc = "lock") ~> (dial[c].pc = "submit")

\* One dial task is inside the executor call holding the lock while the
\* dial task of another chain waits to acquire it.
C22_Witness ==
    \E c, d \in ChainIdx :
        /\ c # d
        /\ dial[c].pc = "submit" /\ lock_holder = <<"dial", c>>
        /\ dial[d].pc = "lock"

\* C23: every try_lock().unwrap() of construction finds the spawner lock
\* free.  Whenever construction is about to submit a discovery task, a dial
\* task or the substreams-open task, no task already submitted holds the
\* lock, and construction never ends in the panic of unwrap().
C23_ConstructionTryLockSucceeds ==
    /\ new_pc \in {"discovery", "dial", "substream"} => ~TryLockFails
    /\ new_pc # "panic"

====
